---- MODULE Spec2Model ----
(***************************************************************************)
(* A model of cmd/fetch_attachments.go (slack-advanced-exporter): the      *)
(* fetch-attachments command copies every entry of an input zip archive    *)
(* into an output zip archive and, for channel files, resolves the file    *)
(* attachments of every post (HTTP download, local directory fallback)     *)
(* into new __uploads/<id>/<name> entries.                                 *)
(*                                                                         *)
(* Strings are TLA+ strings (Len, \o and SubSeq act on them); byte         *)
(* contents are sequences of small naturals; a Go pointer is a sequence    *)
(* of length 0 (nil) or 1.                                                 *)
(***************************************************************************)
EXTENDS Integers, Sequences, FiniteSets, TLC

\* ------------------------------------------------------------- bounds

\* Longest input archive (number of entries of r.File).
MaxEntries == 2
\* Most I/O faults (failed open/read/create/write/copy/close) in one run.
MaxFaults == 1
\* Longest suffix of a generated local file name (NameSpec).
MaxNameLen == 3

\* ------------------------------------------------ strings (package strings)

\* The i-th character of s, as a string of length 1.
Char(s, i) == SubSeq(s, i, i)

\* strings.HasPrefix
HasPrefix(s, prefix) ==
    Len(s) >= Len(prefix) /\ SubSeq(s, 1, Len(prefix)) = prefix

\* strings.HasSuffix
HasSuffix(s, suffix) ==
    Len(s) >= Len(suffix) /\ SubSeq(s, Len(s) - Len(suffix) + 1, Len(s)) = suffix

\* strings.TrimPrefix
TrimPrefix(s, prefix) ==
    IF HasPrefix(s, prefix) THEN SubSeq(s, Len(prefix) + 1, Len(s)) ELSE s

\* strings.TrimSuffix
TrimSuffix(s, suffix) ==
    IF HasSuffix(s, suffix) THEN SubSeq(s, 1, Len(s) - Len(suffix)) ELSE s

\* strings.Split(s, sep) for a separator of one character: the segments
\* between the separators, empty segments included.
RECURSIVE SplitFrom(_, _, _, _)
SplitFrom(s, sep, start, i) ==
    IF i > Len(s) THEN << SubSeq(s, start, Len(s)) >>
    ELSE IF Char(s, i) = sep
         THEN << SubSeq(s, start, i - 1) >> \o SplitFrom(s, sep, i + 1, i + 1)
         ELSE SplitFrom(s, sep, start, i + 1)

Split(s, sep) == SplitFrom(s, sep, 1, 1)

\* ------------------------------------------- paths (package path/filepath)

\* Index of the last "/" of path, 0 if there is none.
RECURSIVE LastSlash(_, _)
LastSlash(path, i) ==
    IF i = 0 THEN 0
    ELSE IF Char(path, i) = "/" THEN i ELSE LastSlash(path, i - 1)

\* filepath.Join(dir, name) for a clean dir and a plain file name.
Join(dir, name) == dir \o "/" \o name

\* filepath.Base for a path that does not end in a separator.
Base(path) == SubSeq(path, LastSlash(path, Len(path)) + 1, Len(path))

\* filepath.Ext: the suffix beginning at the final dot of the final
\* element of path; empty if there is no dot.
RECURSIVE ExtFrom(_, _)
ExtFrom(path, i) ==
    IF i = 0 \/ Char(path, i) = "/" THEN ""
    ELSE IF Char(path, i) = "." THEN SubSeq(path, i, Len(path))
         ELSE ExtFrom(path, i - 1)

Ext(path) == ExtFrom(path, Len(path))

\* ------------------------------------------------- regexp (line 153-154)

\* POSIX [:space:]
SpaceChars == {" ", "\t", "\n", "\r", "\f"}

\* POSIX [:punct:] (the grave accent, which a TLA+ string cannot hold, and
\* the vertical tab of [:space:] are left out; no input of the model has them)
PunctChars ==
    {"!", "\"", "#", "$", "%", "&", "'", "(", ")", "*", "+", ",", "-", ".",
     "/", ":", ";", "<", "=", ">", "?", "@", "[", "\\", "]", "^", "_",
     "{", "|", "}", "~"}

\* Every run of whitespace or punctuation characters of s replaced by one
\* underscore.
RECURSIVE CollapseRuns(_)
CollapseRuns(s) ==
    IF Len(s) = 0 THEN ""
    ELSE IF Char(s, 1) \in SpaceChars \cup PunctChars
         THEN IF Len(s) > 1 /\ Char(s, 2) \in SpaceChars \cup PunctChars
              THEN CollapseRuns(SubSeq(s, 2, Len(s)))
              ELSE "_" \o CollapseRuns(SubSeq(s, 2, Len(s)))
         ELSE Char(s, 1) \o CollapseRuns(SubSeq(s, 2, Len(s)))

\* Faulty variant: the expression "[[:space:][:punct:]]+", which matches runs.
ReplaceAllString_Plus(s) == CollapseRuns(s)

\* regexp.MustCompile("[[:space:][:punct:]]").ReplaceAllString(s, "_"):
\* the expression matches one character, so every matching character is
\* replaced on its own.
RECURSIVE ReplaceAllString(_)
ReplaceAllString(s) ==
    IF Len(s) = 0 THEN ""
    ELSE (IF Char(s, 1) \in SpaceChars \cup PunctChars THEN "_" ELSE Char(s, 1))
         \o ReplaceAllString(SubSeq(s, 2, Len(s)))

\* ------------------------------------------------------------ data model

\* A Go pointer: nil, or a pointer to v.
Nil == << >>
Ptr(v) == << v >>

\* SlackFile: the fields of a file descriptor that the command reads.
SlackFile(id, name, urlPrivate, urlPrivateDownload) ==
    [Id |-> id, Name |-> name, UrlPrivate |-> urlPrivate,
     UrlPrivateDownload |-> urlPrivateDownload]

\* SlackPost: Subtype, Ts, File (*SlackFile) and Files ([]*SlackFile; Nil is
\* the nil slice, Ptr(list) a slice of pointers).
SlackPost(subtype, ts, file, files) ==
    [Subtype |-> subtype, Ts |-> ts, File |-> file, Files |-> files]

\* The descriptors of the checked channel files.
FileA == SlackFile("F1", "a.png", "http://x/f", "")
FileNoName == SlackFile("F1", "", "http://x/f", "")
FileEmpty == SlackFile("", "", "", "")
FileNoId == SlackFile("", "n.png", "http://x/f", "")
FileBoth == SlackFile("F2", "b.txt", "http://x/f", "http://x/d")
FileNoUrl == SlackFile("F1", "a.png", "", "")
FileBadUrl == SlackFile("F2", "c.txt", ":bad", "")

\* The post sequences of the checked channel files.
DocA ==
    << SlackPost("", "100", Nil, Ptr(<< Ptr(FileEmpty), Ptr(FileA) >>)) >>
DocB ==
    << SlackPost("file_share", "200", Ptr(FileNoName), Ptr(<< Ptr(FileBoth) >>)),
       SlackPost("file_share", "201", Nil, Ptr(<< Ptr(FileA) >>)) >>
DocC ==
    << SlackPost("", "300", Ptr(FileA), Nil),
       SlackPost("", "301", Nil, Ptr(<< Ptr(FileBoth), Nil >>)) >>
DocD ==
    << SlackPost("", "400", Nil, Ptr(<< Ptr(FileNoUrl), Ptr(FileBadUrl) >>)),
       SlackPost("", "401", Nil, Ptr(<< Ptr(FileNoId) >>)) >>

\* The bytes of the JSON text of each document. No text is a proper prefix
\* of another: a truncated JSON array is not a JSON array.
BytesA == << 1, 1 >>
BytesB == << 1, 2 >>
BytesC == << 1, 3 >>
BytesD == << 1, 4 >>
\* Bytes that are not JSON.
BytesBad == << 9, 9 >>

\* json.Unmarshal(inBuf, &posts): the posts of a JSON array of posts, an
\* error for any other bytes.
Unmarshal(buf) ==
    CASE buf = BytesA -> [ok |-> TRUE, posts |-> DocA]
      [] buf = BytesB -> [ok |-> TRUE, posts |-> DocB]
      [] buf = BytesC -> [ok |-> TRUE, posts |-> DocC]
      [] buf = BytesD -> [ok |-> TRUE, posts |-> DocD]
      [] OTHER -> [ok |-> FALSE, posts |-> << >>]

\* An entry of an archive, a file of a directory.
Entry(name, data) == [name |-> name, data |-> data]

\* The entries an input archive is made of.
Entries ==
    { Entry("general/1.json", BytesA),
      Entry("general/2.json", BytesB),
      Entry("random/3.json", BytesC),
      Entry("random/4.json", BytesD),
      Entry("general/5.json", BytesBad),
      Entry("users.json", BytesA),
      Entry("__meta/7.json", BytesA),
      Entry("general/sub/8.json", BytesA),
      Entry("general/notes.txt", BytesA) }

\* The input archives: every sequence of at most MaxEntries entries.
Archives == UNION { [1..n -> Entries] : n \in 0..MaxEntries }

\* The --attachments-dir flag with the listing of that directory, as
\* ioutil.ReadDir returns it: sorted by file name. The directory "gone"
\* does not exist.
Dirs ==
    { [flag |-> "", files |-> << >>],
      [flag |-> "gone", files |-> << >>],
      [flag |-> "att", files |-> << Entry("F1-My File!!.png", << 5, 6 >>) >>],
      [flag |-> "att", files |-> << Entry("F1-a.b.txt", << 5 >>),
                                    Entry("F10.png", << 6 >>),
                                    Entry("F2", << 6, 6 >>) >>] }

\* The proper prefixes of a byte sequence: what a failed read or write may
\* have transferred.
ProperPrefixes(data) == { SubSeq(data, 1, n) : n \in 0..(Len(data) - 1) }

\* ----------------------------------------------------- archive/zip writer

\* zip.Writer.Create: closes the entry written so far and appends a new,
\* empty one; the handle returned is the position of the new entry.
ZipCreate(o, name) == Append(o, Entry(name, << >>))

\* Write on the handle h of an entry: appends to the entry while it is the
\* last one created; a write on an entry closed by a later Create fails
\* and writes nothing.
ZipWrite(o, h, data) ==
    IF h = Len(o) /\ h > 0
    THEN [o EXCEPT ![h].data = @ \o data]
    ELSE o

\* --------------------------------------------------------- pure functions

\* Faulty variant: at least two segments, and no test of the reserved prefix.
IsChannelFile_Loose(name) ==
    LET splits == Split(name, "/")
    IN  /\ Len(splits) >= 2
        /\ HasSuffix(splits[Len(splits)], ".json")

\* Lines 85-86: the name has the shape of a channel file.
IsChannelFile(name) ==
    LET splits == Split(name, "/")
    IN  /\ Len(splits) = 2
        /\ ~HasPrefix(splits[1], "__")
        /\ HasSuffix(splits[2], ".json")

\* ioutil.ReadDir(dir).
ReadDir(dir, listing) ==
    IF dir = "att" THEN [ok |-> TRUE, files |-> listing]
    ELSE [ok |-> FALSE, files |-> << >>]

\* Faulty variant: the name of the file is the identifier, not only starts with it.
RECURSIVE FirstMatch_Exact(_, _, _)
FirstMatch_Exact(files, fileID, i) ==
    IF i > Len(files) THEN 0
    ELSE IF files[i].name = fileID THEN i
         ELSE FirstMatch_Exact(files, fileID, i + 1)

\* The first file of the listing, from position i on, whose name starts
\* with fileID; 0 if there is none.
RECURSIVE FirstMatch(_, _, _)
FirstMatch(files, fileID, i) ==
    IF i > Len(files) THEN 0
    ELSE IF HasPrefix(files[i].name, fileID) THEN i
         ELSE FirstMatch(files, fileID, i + 1)

\* findLocalAttachment(fileID, dir): the path of the first file of dir
\* whose name starts with fileID, or an error.
findLocalAttachment(fileID, dir, listing) ==
    IF dir = "" THEN [ok |-> FALSE, path |-> ""]
    ELSE LET rd == ReadDir(dir, listing)
             m == FirstMatch(rd.files, fileID, 1)
         IN  IF ~rd.ok THEN [ok |-> FALSE, path |-> ""]
             ELSE IF m = 0 THEN [ok |-> FALSE, path |-> ""]
                  ELSE [ok |-> TRUE, path |-> Join(dir, rd.files[m].name)]

\* Lines 145-155: the name derived from the local file of a descriptor.
DerivedName(fileId, localFilePath) ==
    LET base == Base(localFilePath)
        fileName == TrimPrefix(base, fileId \o "-")
        ext == Ext(fileName)
        fileNameWithoutExt == TrimSuffix(fileName, ext)
    IN  ReplaceAllString(fileNameWithoutExt) \o ext

\* Lines 139-159: the local path of a descriptor and the descriptor with
\* its name derived, if it was empty and a local file is there.
ResolveLocal(f, dir, listing) ==
    IF Len(f.Id) > 0 /\ dir # ""
    THEN LET r == findLocalAttachment(f.Id, dir, listing)
         IN  IF r.ok
             THEN [path |-> r.path,
                   file |-> IF Len(f.Name) < 1
                            THEN [f EXCEPT !.Name = DerivedName(f.Id, r.path)]
                            ELSE f]
             ELSE [path |-> r.path, file |-> f]
    ELSE [path |-> "", file |-> f]

\* Faulty variant: the name is not required.
MissingProperties_NoName(f) ==
    \/ Len(f.Id) < 1
    \/ ~(Len(f.UrlPrivate) > 0 \/ Len(f.UrlPrivateDownload) > 0)

\* Line 164: a descriptor without a local file lacks a required property.
MissingProperties(f) ==
    \/ Len(f.Id) < 1
    \/ Len(f.Name) < 1
    \/ ~(Len(f.UrlPrivate) > 0 \/ Len(f.UrlPrivateDownload) > 0)

\* Lines 171-176: the download URL.
DownloadUrl(f) ==
    IF Len(f.UrlPrivateDownload) > 0 THEN f.UrlPrivateDownload ELSE f.UrlPrivate

\* Line 179: the path of the attachment in the output archive.
OutputPath(f) == "__uploads/" \o f.Id \o "/" \o f.Name

\* Faulty variant: the legacy file is added to the files of the post.
NormalizedFiles_Appended(post) ==
    IF post.Subtype = "file_share" /\ post.File # Nil
    THEN IF post.Files = Nil THEN Ptr(<< post.File >>)
         ELSE Ptr(post.Files[1] \o << post.File >>)
    ELSE post.Files

\* Lines 117-126: the files of a post after the legacy file of a
\* file_share post replaced them.
NormalizedFiles(post) ==
    IF post.Subtype = "file_share" /\ post.File # Nil
    THEN Ptr(<< post.File >>)
    ELSE post.Files

\* http.NewRequest("GET", url, nil) fails on a URL that does not parse.
ValidUrl(url) == url # ":bad"

\* The body the server holds at a URL.
Body(url) == IF url = "http://x/d" THEN << 8 >> ELSE << 7, 8 >>

\* client.Do(req): an error (always, for a URL without a scheme), or a
\* response with a status and the body of the URL.
Responses(url) ==
    { [err |-> TRUE, status |-> 0, body |-> << >>] }
    \cup (IF url = "" THEN { }
          ELSE { [err |-> FALSE, status |-> st, body |-> Body(url)] :
                     st \in {200, 404} })

\* What the GET came to, for the log.
Outcome(resp) ==
    IF resp.err THEN "neterr" ELSE IF resp.status = 200 THEN "http200" ELSE "http404"

\* Faulty variant: the local file is tried first, whatever the response.
DownloadFailed_Always(resp) == TRUE

\* Line 200: the download failed.
DownloadFailed(resp) == resp.err \/ resp.status # 200

\* The contents of the local file at path.
RECURSIVE FileData(_, _, _)
FileData(listing, path, i) ==
    IF i > Len(listing) THEN << >>
    ELSE IF listing[i].name = Base(path) THEN listing[i].data
         ELSE FileData(listing, path, i + 1)

\* ------------------------------------------------------------------ state

VARIABLES
    input,                \* r.File: the entries of the input archive
    localAttachmentsDir,  \* the --attachments-dir flag
    disk,                 \* the listing of the directory "att"
    pc,                   \* the statement the command is at
    idx,                  \* position of file in r.File
    inBuf,                \* the bytes read from the input entry
    out,                  \* the entries written to the zip writer w, in order
    outFile,              \* fetchAttachments: handle of the copied entry
    posts,                \* processChannelFile: the parsed posts
    pi,                   \* position of post in posts
    files,                \* post.Files, after the legacy normalization
    fi,                   \* position of file in post.Files
    file,                 \* the descriptor being resolved (Nil outside)
    localFilePath,        \* line 139
    attFile,              \* processChannelFile: handle of the attachment entry
    response,             \* line 199 (Nil outside)
    open,                 \* the handles open: input readers, bodies, local files
    deferred,             \* the handles processChannelFile closes on return
    log,                  \* what the run reported: failed reads, writes and
                          \* copies, and the outcome of every GET
    faults,               \* I/O faults so far
    closed                \* w.Close() wrote the central directory

vars ==
    << input, localAttachmentsDir, disk, pc, idx, inBuf, out, outFile, posts,
       pi, files, fi, file, localFilePath, attFile, response, open, deferred,
       log, faults, closed >>

\* The variables of the input: never written.
inputVars == << input, localAttachmentsDir, disk >>
\* The variables of the loops of processChannelFile.
postVars == << posts, pi, files, fi >>
\* The variables of one descriptor.
fileVars == << file, localFilePath, attFile, response >>

\* An event of the log: what happened, at which entry << idx >> or
\* descriptor << idx, pi, fi >>, the descriptor and the bytes it is about.
Event(ev, at, f, data) == [ev |-> ev, at |-> at, file |-> f, data |-> data]

\* An I/O fault may still happen.
CanFault == faults < MaxFaults

\* The handles deferred closes release.
Released == { deferred[i] : i \in 1..Len(deferred) }

\* The state before the first entry, for one input.
Start(archive, dir) ==
    /\ input = archive
    /\ localAttachmentsDir = dir.flag
    /\ disk = dir.files
    /\ pc = "loop"
    /\ idx = 1
    /\ inBuf = << >>
    /\ out = << >>
    /\ outFile = 0
    /\ posts = << >>
    /\ pi = 0
    /\ files = << >>
    /\ fi = 0
    /\ file = Nil
    /\ localFilePath = ""
    /\ attFile = 0
    /\ response = Nil
    /\ open = { }
    /\ deferred = << >>
    /\ log = { }
    /\ faults = 0
    /\ closed = FALSE

Init == \E archive \in Archives, dir \in Dirs : Start(archive, dir)

\* ------------------------------------------------------ fetchAttachments

\* Lines 57-65: the next entry is opened; a failure exits.
OpenEntry ==
    /\ pc = "loop"
    /\ idx <= Len(input)
    /\ \/ /\ open' = open \cup { << "in", idx >> }
          /\ pc' = "read"
          /\ UNCHANGED faults
       \/ /\ CanFault
          /\ faults' = faults + 1
          /\ pc' = "exit"
          /\ UNCHANGED open
    /\ UNCHANGED << inputVars, idx, inBuf, out, outFile, postVars, fileVars,
                    deferred, log, closed >>

\* Lines 67-71: the entry is read; a failure is printed and what was read
\* is kept.
ReadEntry ==
    /\ pc = "read"
    /\ \/ /\ inBuf' = input[idx].data
          /\ UNCHANGED << faults, log >>
       \/ /\ CanFault
          /\ faults' = faults + 1
          /\ \E part \in ProperPrefixes(input[idx].data) : inBuf' = part
          /\ log' = log \cup { Event("ioerr", << idx >>, Nil, << >>) }
    /\ pc' = "create"
    /\ UNCHANGED << inputVars, idx, out, outFile, postVars, fileVars, open,
                    deferred, closed >>

\* Lines 73-78: the entry is created in the output; a failure exits.
CreateEntry ==
    /\ pc = "create"
    /\ \/ /\ out' = ZipCreate(out, input[idx].name)
          /\ outFile' = Len(out')
          /\ pc' = "write"
          /\ UNCHANGED faults
       \/ /\ CanFault
          /\ faults' = faults + 1
          /\ pc' = "exit"
          /\ UNCHANGED << out, outFile >>
    /\ UNCHANGED << inputVars, idx, inBuf, postVars, fileVars, open, deferred,
                    log, closed >>

\* Faulty variant: the bytes read are never written.
WriteEntry_NoWrite ==
    /\ pc = "write"
    /\ pc' = "detect"
    /\ UNCHANGED << inputVars, idx, inBuf, out, outFile, postVars, fileVars, open,
                    deferred, log, faults, closed >>

\* Lines 79-82: the bytes read are written; a failure is printed.
WriteEntry ==
    /\ pc = "write"
    /\ \/ /\ out' = ZipWrite(out, outFile, inBuf)
          /\ UNCHANGED << faults, log >>
       \/ /\ CanFault
          /\ faults' = faults + 1
          /\ \E part \in ProperPrefixes(inBuf) : out' = ZipWrite(out, outFile, part)
          /\ log' = log \cup { Event("ioerr", << idx >>, Nil, << >>) }
    /\ pc' = "detect"
    /\ UNCHANGED << inputVars, idx, inBuf, outFile, postVars, fileVars, open,
                    deferred, closed >>

\* Lines 85-86, 94: an entry that is no channel file is done.
SkipOtherEntry ==
    /\ pc = "detect"
    /\ ~IsChannelFile(input[idx].name)
    /\ idx' = idx + 1
    /\ inBuf' = << >>
    /\ outFile' = 0
    /\ pc' = "loop"
    /\ UNCHANGED << inputVars, out, postVars, fileVars, open, deferred, log,
                    faults, closed >>

\* Lines 88, 108-110: a channel file is parsed.
ParseChannelFile ==
    /\ pc = "detect"
    /\ IsChannelFile(input[idx].name)
    /\ Unmarshal(inBuf).ok
    /\ posts' = Unmarshal(inBuf).posts
    /\ pi' = 1
    /\ pc' = "post"
    /\ UNCHANGED << inputVars, idx, inBuf, out, outFile, files, fi, fileVars,
                    open, deferred, log, faults, closed >>

\* Faulty variant: the error is dropped and the next entry is gone on to.
ParseFailure_Ignored ==
    /\ pc = "detect"
    /\ IsChannelFile(input[idx].name)
    /\ ~Unmarshal(inBuf).ok
    /\ idx' = idx + 1
    /\ inBuf' = << >>
    /\ outFile' = 0
    /\ pc' = "loop"
    /\ UNCHANGED << inputVars, out, postVars, fileVars, open, deferred, log,
                    faults, closed >>

\* Lines 110-112, 89-92: a channel file that does not parse exits.
ParseFailure ==
    /\ pc = "detect"
    /\ IsChannelFile(input[idx].name)
    /\ ~Unmarshal(inBuf).ok
    /\ pc' = "exit"
    /\ UNCHANGED << inputVars, idx, inBuf, out, outFile, postVars, fileVars,
                    open, deferred, log, faults, closed >>

\* Line 57: no entry is left.
EndOfArchive ==
    /\ pc = "loop"
    /\ idx > Len(input)
    /\ pc' = "close"
    /\ UNCHANGED << inputVars, idx, inBuf, out, outFile, postVars, fileVars,
                    open, deferred, log, faults, closed >>

\* Lines 96-102: the zip writer is closed; a failure is printed.
CloseArchive ==
    /\ pc = "close"
    /\ \/ /\ closed' = TRUE
          /\ UNCHANGED faults
       \/ /\ CanFault
          /\ faults' = faults + 1
          /\ closed' = FALSE
    /\ pc' = "done"
    /\ UNCHANGED << inputVars, idx, inBuf, out, outFile, postVars, fileVars,
                    open, deferred, log >>

\* ---------------------------------------------------- processChannelFile

\* Lines 115, 232, 94: no post is left: the function returns, its deferred
\* closes run, and the entry is done.
ReturnFromChannelFile ==
    /\ pc = "post"
    /\ pi > Len(posts)
    /\ open' = open \ Released
    /\ deferred' = << >>
    /\ posts' = << >>
    /\ pi' = 0
    /\ idx' = idx + 1
    /\ inBuf' = << >>
    /\ outFile' = 0
    /\ pc' = "loop"
    /\ UNCHANGED << inputVars, out, files, fi, fileVars, log, faults, closed >>

\* Lines 117-122: a file_share post without a File is skipped.
SkipLegacyWithoutFile ==
    /\ pc = "post"
    /\ pi <= Len(posts)
    /\ posts[pi].Subtype = "file_share"
    /\ posts[pi].File = Nil
    /\ pi' = pi + 1
    /\ UNCHANGED << inputVars, pc, idx, inBuf, out, outFile, posts, files, fi,
                    fileVars, open, deferred, log, faults, closed >>

\* Lines 129-131: a post without files is skipped.
SkipPostWithoutFiles ==
    /\ pc = "post"
    /\ pi <= Len(posts)
    /\ ~(posts[pi].Subtype = "file_share" /\ posts[pi].File = Nil)
    /\ NormalizedFiles(posts[pi]) = Nil
    /\ pi' = pi + 1
    /\ UNCHANGED << inputVars, pc, idx, inBuf, out, outFile, posts, files, fi,
                    fileVars, open, deferred, log, faults, closed >>

\* Lines 124-136: the files of the post, the legacy file in their place on
\* a file_share post, are gone through.
EnterPost ==
    /\ pc = "post"
    /\ pi <= Len(posts)
    /\ ~(posts[pi].Subtype = "file_share" /\ posts[pi].File = Nil)
    /\ NormalizedFiles(posts[pi]) # Nil
    /\ files' = NormalizedFiles(posts[pi])[1]
    /\ fi' = 1
    /\ pc' = "file"
    /\ UNCHANGED << inputVars, idx, inBuf, out, outFile, posts, pi, fileVars,
                    open, deferred, log, faults, closed >>

\* Line 136: no file of the post is left.
EndOfPost ==
    /\ pc = "file"
    /\ fi > Len(files)
    /\ files' = << >>
    /\ fi' = 0
    /\ pi' = pi + 1
    /\ pc' = "post"
    /\ UNCHANGED << inputVars, idx, inBuf, out, outFile, posts, fileVars, open,
                    deferred, log, faults, closed >>

\* Line 138: file.Id of a nil *SlackFile panics; the deferred closes run.
NilDescriptor ==
    /\ pc = "file"
    /\ fi <= Len(files)
    /\ files[fi] = Nil
    /\ open' = open \ Released
    /\ deferred' = << >>
    /\ pc' = "panic"
    /\ UNCHANGED << inputVars, idx, inBuf, out, outFile, postVars, fileVars,
                    log, faults, closed >>

\* The statements "continue" of the loop over the files reach.
NextDescriptor ==
    /\ fi' = fi + 1
    /\ file' = Nil
    /\ localFilePath' = ""
    /\ attFile' = 0
    /\ response' = Nil
    /\ pc' = "file"

\* Lines 139-167: a descriptor without a local file that lacks a required
\* property is skipped.
SkipDescriptor ==
    /\ pc = "file"
    /\ fi <= Len(files)
    /\ files[fi] # Nil
    /\ LET r == ResolveLocal(files[fi][1], localAttachmentsDir, disk)
       IN  r.path = "" /\ MissingProperties(r.file)
    /\ NextDescriptor
    /\ UNCHANGED << inputVars, idx, inBuf, out, outFile, posts, pi, files, open,
                    deferred, log, faults, closed >>

\* Lines 139-179: any other descriptor is resolved: its local path and,
\* for an empty name, its derived name.
BeginDescriptor ==
    /\ pc = "file"
    /\ fi <= Len(files)
    /\ files[fi] # Nil
    /\ LET r == ResolveLocal(files[fi][1], localAttachmentsDir, disk)
       IN  /\ ~(r.path = "" /\ MissingProperties(r.file))
           /\ file' = Ptr(r.file)
           /\ localFilePath' = r.path
    /\ pc' = "attcreate"
    /\ UNCHANGED << inputVars, idx, inBuf, out, outFile, postVars, attFile,
                    response, open, deferred, log, faults, closed >>

\* Faulty variant: the handle of the copied entry is kept for the attachment.
CreateAttachment_StaleHandle ==
    /\ pc = "attcreate"
    /\ ValidUrl(DownloadUrl(file[1]))
    /\ out' = ZipCreate(out, OutputPath(file[1]))
    /\ attFile' = outFile
    /\ pc' = "do"
    /\ UNCHANGED << inputVars, idx, inBuf, outFile, postVars, file,
                    localFilePath, response, open, deferred, log, faults, closed >>

\* Lines 181-198: the entry of the attachment is created and the request
\* built; a failure of either moves on to the next descriptor. (The
\* Authorization header of lines 196-198 changes nothing the command keeps:
\* every answer of the server is possible at line 199.)
CreateAttachment ==
    /\ pc = "attcreate"
    /\ \/ /\ CanFault
          /\ faults' = faults + 1
          /\ NextDescriptor
          /\ UNCHANGED out
       \/ /\ ~ValidUrl(DownloadUrl(file[1]))
          /\ out' = ZipCreate(out, OutputPath(file[1]))
          /\ NextDescriptor
          /\ UNCHANGED faults
       \/ /\ ValidUrl(DownloadUrl(file[1]))
          /\ out' = ZipCreate(out, OutputPath(file[1]))
          /\ attFile' = Len(out')
          /\ pc' = "do"
          /\ UNCHANGED << fi, file, localFilePath, response, faults >>
    /\ UNCHANGED << inputVars, idx, inBuf, outFile, posts, pi, files, open,
                    deferred, log, closed >>

\* The descriptor the command is at.
At == << idx, pi, fi >>

\* The handle of the response body, of the local file, of this descriptor.
BodyHandle == << "body", idx, pi, fi >>
LocalHandle == << "local", idx, pi, fi >>

\* Lines 199-200: the download fails: an error, or a response whose status
\* is not 200 and whose body stays open.
DownloadFails ==
    /\ pc = "do"
    /\ \E resp \in Responses(DownloadUrl(file[1])) :
          /\ DownloadFailed(resp)
          /\ response' = Ptr(resp)
          /\ open' = IF resp.err THEN open ELSE open \cup { BodyHandle }
          /\ log' = log \cup { Event(Outcome(resp), At, file, resp.body) }
    /\ pc' = "fallback"
    /\ UNCHANGED << inputVars, idx, inBuf, out, outFile, postVars, file,
                    localFilePath, attFile, deferred, faults, closed >>

\* Lines 199-200, 219: the download succeeds; the close of the body is
\* deferred.
DownloadSucceeds ==
    /\ pc = "do"
    /\ \E resp \in Responses(DownloadUrl(file[1])) :
          /\ ~DownloadFailed(resp)
          /\ response' = Ptr(resp)
          /\ log' = log \cup { Event(Outcome(resp), At, file, resp.body) }
    /\ open' = open \cup { BodyHandle }
    /\ deferred' = Append(deferred, BodyHandle)
    /\ pc' = "save"
    /\ UNCHANGED << inputVars, idx, inBuf, out, outFile, postVars, file,
                    localFilePath, attFile, faults, closed >>

\* Lines 202, 216-217: no local file stands in for the failed download.
NoFallback ==
    /\ pc = "fallback"
    /\ ~findLocalAttachment(file[1].Id, localAttachmentsDir, disk).ok
    /\ NextDescriptor
    /\ UNCHANGED << inputVars, idx, inBuf, out, outFile, posts, pi, files, open,
                    deferred, log, faults, closed >>

\* Lines 202-217: the local file is opened, its close deferred, and its
\* bytes copied into the entry; a failed open or copy is logged.
UseLocalFile ==
    /\ pc = "fallback"
    /\ LET r == findLocalAttachment(file[1].Id, localAttachmentsDir, disk)
           data == FileData(disk, r.path, 1)
       IN  /\ r.ok
           /\ \/ /\ CanFault
                 /\ faults' = faults + 1
                 /\ log' = log \cup { Event("ioerr", At, Nil, << >>) }
                 /\ UNCHANGED << out, open, deferred >>
              \/ /\ open' = open \cup { LocalHandle }
                 /\ deferred' = Append(deferred, LocalHandle)
                 /\ \/ /\ out' = ZipWrite(out, attFile, data)
                       /\ UNCHANGED << faults, log >>
                    \/ /\ CanFault
                       /\ faults' = faults + 1
                       /\ log' = log \cup { Event("ioerr", At, Nil, << >>) }
                       /\ \E part \in ProperPrefixes(data) :
                             out' = ZipWrite(out, attFile, part)
    /\ NextDescriptor
    /\ UNCHANGED << inputVars, idx, inBuf, outFile, posts, pi, files, closed >>

\* Lines 221-229: the body is copied into the entry; a failure is logged.
SaveBody ==
    /\ pc = "save"
    /\ \/ /\ out' = ZipWrite(out, attFile, response[1].body)
          /\ UNCHANGED << faults, log >>
       \/ /\ CanFault
          /\ faults' = faults + 1
          /\ log' = log \cup { Event("ioerr", At, Nil, << >>) }
          /\ \E part \in ProperPrefixes(response[1].body) :
                out' = ZipWrite(out, attFile, part)
    /\ NextDescriptor
    /\ UNCHANGED << inputVars, idx, inBuf, outFile, posts, pi, files, open,
                    deferred, closed >>

\* ---------------------------------------------------------- specification

Next ==
    \/ OpenEntry
    \/ ReadEntry
    \/ CreateEntry
    \/ WriteEntry
    \/ SkipOtherEntry
    \/ ParseChannelFile
    \/ ParseFailure
    \/ EndOfArchive
    \/ CloseArchive
    \/ ReturnFromChannelFile
    \/ SkipLegacyWithoutFile
    \/ SkipPostWithoutFiles
    \/ EnterPost
    \/ EndOfPost
    \/ NilDescriptor
    \/ SkipDescriptor
    \/ BeginDescriptor
    \/ CreateAttachment
    \/ DownloadFails
    \/ DownloadSucceeds
    \/ NoFallback
    \/ UseLocalFile
    \/ SaveBody

Spec == Init /\ [][Next]_vars

\* ------------------------------------------------- name derivation alone

\* The characters generated local file names are made of.
NameAlphabet == {"a", " ", "!", ".", "-"}

\* The strings of at most n characters of the alphabet.
RECURSIVE StringsUpTo(_)
StringsUpTo(n) ==
    IF n = 0 THEN {""}
    ELSE StringsUpTo(n - 1)
         \cup { t \o c : t \in StringsUpTo(n - 1), c \in NameAlphabet }

\* The local file names: the identifier F1 with a dash, the identifier
\* alone, or no identifier, before a generated suffix; and the example of
\* the specification.
LocalNames ==
    { prefix \o t : prefix \in {"F1-", "F1", "G"}, t \in StringsUpTo(MaxNameLen) }
    \cup {"F1-My File!!.png"}

\* The command at line 136, at the legacy file (of empty name) of the first
\* post of general/2.json, for a directory of one file.
NameInit ==
    \E name \in LocalNames :
        /\ input = << Entry("general/2.json", BytesB) >>
        /\ localAttachmentsDir = "att"
        /\ disk = << Entry(name, << 5 >>) >>
        /\ pc = "file"
        /\ idx = 1
        /\ inBuf = BytesB
        /\ out = << Entry("general/2.json", BytesB) >>
        /\ outFile = 1
        /\ posts = DocB
        /\ pi = 1
        /\ files = NormalizedFiles(DocB[1])[1]
        /\ fi = 1
        /\ file = Nil
        /\ localFilePath = ""
        /\ attFile = 0
        /\ response = Nil
        /\ open = { << "in", 1 >> }
        /\ deferred = << >>
        /\ log = { }
        /\ faults = 0
        /\ closed = FALSE

NameNext ==
    \/ SkipDescriptor
    \/ BeginDescriptor

NameSpec == NameInit /\ [][NameNext]_vars

\* ----------------------------------------------------------------- claims

\* The output archive holds an entry of this name and these bytes.
InOutput(name, data) ==
    \E j \in 1..Len(out) : out[j].name = name /\ out[j].data = data

\* The run is over: closed normally, exited, or panicked.
RunEnded == pc \in {"done", "exit", "panic"}

\* An I/O error was reported at this entry or descriptor.
ErrorAt(at) == Event("ioerr", at, Nil, << >>) \in log

\* The descriptor of this event is still being resolved.
InFlight(e) == e.at = At /\ pc \in {"save", "fallback"}

\* The path of the specification for a descriptor: __uploads/<id>/<name>.
UploadPath(f) == "__uploads/" \o f.Id \o "/" \o f.Name

\* The files of the local directory whose name starts with id (none when
\* the directory is not configured or cannot be read).
LocalMatches(id) ==
    IF localAttachmentsDir = "att"
    THEN { k \in 1..Len(disk) :
             Len(disk[k].name) >= Len(id) /\ SubSeq(disk[k].name, 1, Len(id)) = id }
    ELSE { }

\* The least element of a non-empty set of numbers.
Least(S) == CHOOSE k \in S : \A m \in S : k <= m

\* C1 (as claimed): in every run, however it ends (a channel file that
\* fails to parse included), every entry of the input archive is in the
\* output archive with identical bytes. Stated for the runs without any I/O
\* fault, where it already fails.
C1_CopyFidelityInEveryRun ==
    (RunEnded /\ faults = 0) =>
        \A i \in 1..Len(input) : InOutput(input[i].name, input[i].data)

\* C1 (amended): in every run that ends normally, with the output archive
\* closed, every entry of the input archive whose read and write reported
\* no error is in the output archive with identical bytes, whatever the
\* attachment processing did.
C1_CopyFidelity ==
    (pc = "done" /\ closed) =>
        \A i \in 1..Len(input) :
            ~ErrorAt(<< i >>) => InOutput(input[i].name, input[i].data)

\* C1 witness: a run of two entries ended normally with attachments added
\* and one of them left short by a failed copy.
C1_Witness ==
    /\ pc = "done" /\ closed
    /\ Len(input) = 2
    /\ Len(out) > 3
    /\ \E e \in log : e.ev = "ioerr" /\ Len(e.at) = 3

\* C2 (as claimed): whenever the GET of a descriptor returned 200, the
\* output archive holds __uploads/<id>/<name> with the full response body.
C2_DownloadStoredAlways ==
    \A e \in log :
        (e.ev = "http200" /\ ~InFlight(e)) =>
            InOutput(UploadPath(e.file[1]), e.data)

\* C2 (amended): whenever the GET of a descriptor returned 200 and the copy
\* of the body reported no error, the output archive holds
\* __uploads/<id>/<name> with the full response body, also when a local
\* file matches the identifier.
C2_DownloadStored ==
    \A e \in log :
        (e.ev = "http200" /\ ~InFlight(e) /\ ~ErrorAt(e.at)) =>
            InOutput(UploadPath(e.file[1]), e.data)

\* C2 witness: a 200 download was stored while a local file of other bytes
\* matches the identifier.
C2_Witness ==
    \E e \in log :
        /\ e.ev = "http200" /\ ~InFlight(e) /\ ~ErrorAt(e.at)
        /\ LocalMatches(e.file[1].Id) # { }
        /\ disk[Least(LocalMatches(e.file[1].Id))].data # e.data
        /\ InOutput(UploadPath(e.file[1]), e.data)

\* C3 (as claimed): whenever the download of a descriptor failed and a
\* local file matches its identifier, the output archive holds
\* __uploads/<id>/<name> with the bytes of a matching local file.
C3_LocalFallbackAlways ==
    \A e \in log :
        (e.ev \in {"neterr", "http404"} /\ ~InFlight(e)
            /\ LocalMatches(e.file[1].Id) # { }) =>
            \E k \in LocalMatches(e.file[1].Id) :
                InOutput(UploadPath(e.file[1]), disk[k].data)

\* C3 (amended): whenever the download of a descriptor failed, a local file
\* matches its identifier, and the open and the copy of the local file
\* reported no error, the output archive holds __uploads/<id>/<name> with
\* the bytes of the first matching file of the sorted directory listing.
C3_LocalFallback ==
    \A e \in log :
        (e.ev \in {"neterr", "http404"} /\ ~InFlight(e) /\ ~ErrorAt(e.at)
            /\ LocalMatches(e.file[1].Id) # { }) =>
            InOutput(UploadPath(e.file[1]),
                     disk[Least(LocalMatches(e.file[1].Id))].data)

\* C3 witness: a 404 was answered from a directory in which two files match
\* the identifier.
C3_Witness ==
    \E e \in log :
        /\ e.ev = "http404" /\ ~InFlight(e) /\ ~ErrorAt(e.at)
        /\ Cardinality(LocalMatches(e.file[1].Id)) = 2
        /\ InOutput(UploadPath(e.file[1]),
                    disk[Least(LocalMatches(e.file[1].Id))].data)

\* The local file name of the descriptor being resolved, without a leading
\* "<id>-".
StrippedLocalName ==
    LET local == disk[Least(LocalMatches(file[1].Id))].name
        prefix == file[1].Id \o "-"
    IN  IF Len(local) >= Len(prefix) /\ SubSeq(local, 1, Len(prefix)) = prefix
        THEN SubSeq(local, Len(prefix) + 1, Len(local))
        ELSE local

\* The position at which the extension of a file name starts: its last dot,
\* or past its end.
ExtStart(name) ==
    LET dots == { i \in 1..Len(name) : SubSeq(name, i, i) = "." }
    IN  IF dots = { } THEN Len(name) + 1
        ELSE CHOOSE i \in dots : \A j \in dots : j <= i

\* A descriptor of empty name was given a derived name.
NameWasDerived ==
    /\ pc = "attcreate"
    /\ files[fi][1].Name = ""
    /\ LocalMatches(file[1].Id) # { }

\* C4 (as claimed): the derived name is the local name without "<id>-",
\* every run of whitespace or punctuation before the extension replaced by
\* one underscore; <id>-My File!!.png gives My_File.png.
C4_RunsCollapsed ==
    NameWasDerived =>
        LET name == StrippedLocalName
            k == ExtStart(name)
        IN  /\ file[1].Name = CollapseRuns(SubSeq(name, 1, k - 1))
                                  \o SubSeq(name, k, Len(name))
            /\ (Base(localFilePath) = "F1-My File!!.png" => file[1].Name = "My_File.png")

\* C4 (amended): the derived name is the local name without "<id>-", every
\* single whitespace or punctuation character before the extension replaced
\* by an underscore of its own (the length is kept), the extension as it
\* was; <id>-My File!!.png gives My_File__.png.
C4_NameDerivation ==
    NameWasDerived =>
        LET name == StrippedLocalName
            k == ExtStart(name)
        IN  /\ Len(file[1].Name) = Len(name)
            /\ \A i \in 1..Len(name) :
                  SubSeq(file[1].Name, i, i) =
                      IF i < k /\ SubSeq(name, i, i) \in SpaceChars \cup PunctChars
                      THEN "_"
                      ELSE SubSeq(name, i, i)
            /\ (Base(localFilePath) = "F1-My File!!.png" => file[1].Name = "My_File__.png")

\* C4 witness: the example of the specification was derived.
C4_Witness ==
    /\ NameWasDerived
    /\ disk[1].name = "F1-My File!!.png"
    /\ file[1].Name = "My_File__.png"

\* The descriptor f has no local file: no identifier to search with, or no
\* file of the directory starts with it.
NoLocalMatch(f) == f.Id = "" \/ LocalMatches(f.Id) = { }

\* The descriptor f lacks the identifier, the name, or both URLs.
LacksRequired(f) ==
    f.Id = "" \/ f.Name = "" \/ (f.UrlPrivate = "" /\ f.UrlPrivateDownload = "")

\* The command is at a descriptor that has no local match and lacks a
\* required property.
AtDeficientDescriptor ==
    /\ pc = "file"
    /\ fi <= Len(files)
    /\ files[fi] # Nil
    /\ NoLocalMatch(files[fi][1])
    /\ LacksRequired(files[fi][1])

\* C5: a descriptor with no local match that lacks the identifier, the name
\* or both URLs creates no entry, and the command goes on with the next
\* descriptor of the same post.
C5_MissingFieldSkip ==
    [][AtDeficientDescriptor =>
          /\ out' = out
          /\ pc' = "file"
          /\ fi' = fi + 1
          /\ pi' = pi /\ idx' = idx /\ posts' = posts /\ files' = files]_vars

\* C5 witness: a descriptor was skipped for a missing property and the next
\* one of the post reached its download.
C5_Witness ==
    /\ pc = "do"
    /\ fi = 2
    /\ files[1] # Nil
    /\ NoLocalMatch(files[1][1])
    /\ LacksRequired(files[1][1])
    /\ \A j \in 1..Len(out) : out[j].name # UploadPath(files[1][1])

\* The bytes do not parse as a sequence of posts: they are the text of none
\* of the documents.
Malformed(buf) == buf \notin {BytesA, BytesB, BytesC, BytesD}

\* The name has two segments, the first not starting with "__", the second
\* ending with ".json".
ChannelShape(name) ==
    LET slashes == { i \in 1..Len(name) : SubSeq(name, i, i) = "/" }
    IN  /\ Cardinality(slashes) = 1
        /\ SubSeq(name, 1, 2) # "__"
        /\ Len(name) - Least(slashes) >= 5
        /\ SubSeq(name, Len(name) - 4, Len(name)) = ".json"

\* C6: a channel file that does not parse ends the run in failure, and from
\* then on no entry is created and no byte written in the output archive.
C6_MalformedIsFatal ==
    [][/\ (pc = "detect" /\ ChannelShape(input[idx].name) /\ Malformed(inBuf))
            => (pc' = "exit" /\ out' = out)
       /\ pc = "exit" => (pc' = "exit" /\ out' = out /\ closed' = closed)]_vars

\* C6 witness: the run exited at a malformed channel file with an entry of
\* the input still to come, never copied.
C6_Witness ==
    /\ pc = "exit"
    /\ faults = 0
    /\ idx < Len(input)
    /\ Len(out) = idx
    /\ Malformed(input[idx].data)

\* The command is resolving a descriptor of a file_share post: it is the
\* first and only one, and it is the legacy file of the post (its name
\* derived if it was empty).
LegacyFileResolved ==
    (pc \in {"attcreate", "do", "fallback", "save"}
        /\ posts[pi].Subtype = "file_share") =>
        /\ posts[pi].File # Nil
        /\ fi = 1
        /\ Len(files) = 1
        /\ file[1].Id = posts[pi].File[1].Id
        /\ file[1].UrlPrivate = posts[pi].File[1].UrlPrivate
        /\ file[1].UrlPrivateDownload = posts[pi].File[1].UrlPrivateDownload
        /\ (posts[pi].File[1].Name # "" => file[1].Name = posts[pi].File[1].Name)

\* C7: a file_share post with a legacy file has exactly that one
\* descriptor processed, whatever its files array holds; a file_share post
\* without a legacy file is skipped and adds nothing to the output.
C7_LegacyNormalization ==
    [][/\ (pc = "post" /\ pi <= Len(posts) /\ posts[pi].Subtype = "file_share") =>
             IF posts[pi].File # Nil
             THEN /\ files' = << posts[pi].File >>
                  /\ fi' = 1 /\ pi' = pi /\ pc' = "file" /\ out' = out
             ELSE /\ pi' = pi + 1 /\ pc' = "post" /\ out' = out
       /\ (pc = "file" /\ posts[pi].Subtype = "file_share") =>
             /\ Len(files) = 1
             /\ fi = 1 => pc' \in {"file", "attcreate"} /\ pi' = pi
             /\ fi = 2 => pc' = "post" /\ pi' = pi + 1 /\ out' = out
       /\ LegacyFileResolved']_vars

\* C7 witness: the legacy file of a file_share post is being downloaded
\* while the files array of the post holds another descriptor.
C7_Witness ==
    /\ pc = "do"
    /\ posts[pi].Subtype = "file_share"
    /\ posts[pi].Files # Nil
    /\ posts[pi].Files # Ptr(<< posts[pi].File >>)
    /\ file[1].Id = posts[pi].File[1].Id

\* C8: an entry triggers attachment extraction if and only if its name has
\* the shape of a channel file; any other entry is only copied and adds no
\* entry to the output.
C8_ChannelFileDetection ==
    [][/\ pc = "detect" =>
             IF ChannelShape(input[idx].name)
             THEN pc' \in {"post", "exit"} /\ idx' = idx
             ELSE pc' = "loop" /\ idx' = idx + 1 /\ out' = out
       /\ (pc' \in {"post", "file", "attcreate", "do", "fallback", "save"})
             => ChannelShape(input[idx'].name)
       /\ (Len(out') > Len(out) /\ pc # "create")
             => ChannelShape(input[idx].name)]_vars

\* C8 witness: an entry under a reserved directory, with .json name and the
\* bytes of a channel file with attachments, was only copied.
C8_Witness ==
    /\ pc = "loop"
    /\ idx = 2
    /\ faults = 0
    /\ input[1].name = "__meta/7.json"
    /\ Unmarshal(input[1].data).ok
    /\ out = << input[1] >>

\* Every write the command is about to make goes to the entry created
\* last, the only one open.
WritesTargetOpenEntry ==
    /\ pc = "write" => (outFile = Len(out) /\ outFile > 0)
    /\ pc \in {"do", "fallback", "save"} => (attFile = Len(out) /\ attFile > 0)

\* A step appends one empty entry, or appends bytes to the last entry, or
\* leaves the output alone.
OutputGrowsInOrder ==
    \/ out' = out
    \/ /\ Len(out') = Len(out) + 1
       /\ SubSeq(out', 1, Len(out)) = out
       /\ out'[Len(out')].data = << >>
    \/ /\ Len(out') = Len(out)
       /\ Len(out) > 0
       /\ \A j \in 1..(Len(out) - 1) : out'[j] = out[j]
       /\ out'[Len(out)].name = out[Len(out)].name
       /\ Len(out'[Len(out)].data) > Len(out[Len(out)].data)
       /\ SubSeq(out'[Len(out)].data, 1, Len(out[Len(out)].data))
              = out[Len(out)].data

\* C9: one entry is open at a time: every write goes to the entry created
\* last, after its creation and before the next one, and no entry a later
\* create closed is written again.
C9_WriterOrdering ==
    [][OutputGrowsInOrder /\ WritesTargetOpenEntry']_vars

\* C9 witness: a downloaded body is about to be written to the fourth entry
\* of the output.
C9_Witness ==
    /\ pc = "save"
    /\ attFile = Len(out)
    /\ Len(out) >= 4

\* C10 (as claimed): no handle of an earlier entry or descriptor is open
\* when the next one is gone on to: none at all at the top of the loop over
\* the entries, only the reader of the current entry at the top of the loop
\* over the files.
C10_HandlesReleased ==
    /\ pc = "loop" => open = { }
    /\ pc = "file" => open \subseteq { << "in", idx >> }

====
